---- MODULE Spec2Model ----
(***************************************************************************)
(* TaskForge (taskforge.py): the task store (tarefas.json), its load and   *)
(* save primitives, the expiry sweep, the timer, the mutation operations,  *)
(* the foreground menu loop and the background checker thread.             *)
(*                                                                         *)
(* Text is modelled as a sequence of tokens: " " is a whitespace           *)
(* character, the entries of DateTexts are well-formed "%Y-%m-%d %H:%M"    *)
(* texts, any other token is a run of other characters.  A JSON string     *)
(* holding an ISO-8601 timestamp is one of the entries of IsoTexts.        *)
(* Instants are the integers 0..MaxTime; entry i of DateTexts and of       *)
(* IsoTexts denotes instant i - 1.                                         *)
(***************************************************************************)
EXTENDS Integers, Sequences, FiniteSets, TLC

\* ------------------------------------------------------------------ bounds
MaxTime == 1        \* the clock runs over 0..MaxTime
MaxOps == 1         \* confirmed Create, Edit, Delete and timer operations

\* --------------------------------------------------------------- constants
Threads == {"fg", "bg"}

Other(th) == IF th = "fg" THEN "bg" ELSE "fg"

\* entry i of either list denotes instant i - 1
DateTexts ==
  <<"2020-01-01 00:00", "2020-01-01 00:01", "2020-01-01 00:02",
    "2020-01-01 00:03", "2020-01-01 00:04">>

IsoTexts ==
  <<"2020-01-01T00:00:00", "2020-01-01T00:01:00", "2020-01-01T00:02:00",
    "2020-01-01T00:03:00", "2020-01-01T00:04:00">>

Null == "null"            \* JSON null / Python None, for text-valued fields
NoTipo == "absent"        \* the record has no "tipo" key
NoExtra == "absent"       \* the record has no key outside the schema

\* ------------------------------------------------------- utilities (55-80)
RECURSIVE LStrip(_)
LStrip(s) == IF s # <<>> /\ Head(s) = " " THEN LStrip(Tail(s)) ELSE s

RECURSIVE RStrip(_)
RStrip(s) ==
  IF s # <<>> /\ s[Len(s)] = " " THEN RStrip(SubSeq(s, 1, Len(s) - 1)) ELSE s

\* str.strip()
Strip(s) == RStrip(LStrip(s))

IndexOf(seq, x) ==
  IF \E i \in 1..Len(seq) : seq[i] = x
  THEN CHOOSE i \in 1..Len(seq) : seq[i] = x
  ELSE 0

\* datetime.strptime(s, DATE_FMT): the instant, or -1 for ValueError
StrpTime(s) == IF Len(s) = 1 THEN IndexOf(DateTexts, s[1]) - 1 ELSE -1

\* parse_prazo(s): the instant, or -1 for None
ParsePrazo(s) == IF s = <<>> THEN -1 ELSE StrpTime(Strip(s))

\* datetime.isoformat()
IsoFormat(dt) == IsoTexts[dt + 1]

\* datetime.fromisoformat(text): the instant, or -1 when it raises
FromIso(text) == IndexOf(IsoTexts, text) - 1

\* ----------------------------------------------------------- task records
Task(id, titulo, descricao, quantidade, prazo, criado) ==
  [id |-> id, titulo |-> titulo, descricao |-> descricao,
   quantidade |-> quantidade, prazo |-> prazo, concluida |-> FALSE,
   criado_em |-> criado, ultimo_tempo_seg |-> 0, total_tempo_seg |-> 0,
   tipo |-> NoTipo, extra |-> NoExtra]

Ids(ts) == {ts[i].id : i \in 1..Len(ts)}

\* position of the first record with this id, 0 when there is none
Find(ts, id) ==
  IF \E i \in 1..Len(ts) : ts[i].id = id
  THEN CHOOSE i \in 1..Len(ts) :
         ts[i].id = id /\ \A j \in 1..(i - 1) : ts[j].id # id
  ELSE 0

\* ------------------------------------------------------------ the document
\* st = "absent": no file; "partial": the file holds no complete JSON text
\* (just truncated by open(..., "w"), or corrupted); "json": a complete array
AbsentFile == [st |-> "absent", data |-> <<>>]
PartialFile == [st |-> "partial", data |-> <<>>]
JsonFile(ts) == [st |-> "json", data |-> ts]

\* carregar_tarefas
\* the migration loop is left out
Migrar_Keep(ts) == ts

\* lines 98-99: only the "tipo" key is popped
Migrar(ts) == [i \in 1..Len(ts) |-> [ts[i] EXCEPT !.tipo = NoTipo]]

\* a load that fails falls back on a sample collection
CarregarTarefas_Sample(f) ==
  IF f.st = "json" THEN Migrar(f.data)
  ELSE <<Task(1, <<"b">>, <<>>, <<>>, Null, IsoTexts[1])>>

CarregarTarefas(f) == IF f.st = "json" THEN Migrar(f.data) ELSE <<>>

\* salvar_tarefas runs as two steps of the calling thread:
\*   "lock" -> "dump"   : with lock: open(DB_FILE, "w"), truncating (105-106)
\*   "dump" -> caller   : json.dump, close, the lock is released (107)
\* a thread at "dump" is inside the write section
WriteSection == {"dump"}

\* ---------------------------------------------------- remover_vencidas core
\* lines 122-129: the deadline of a record, -1 for None
PrazoDe(t) ==
  IF t.prazo # Null /\ t.prazo # "" THEN FromIso(t.prazo) ELSE -1

\* a deadline equal to the time read is not yet expired
Vencida_Strict(t, agora_dt) == PrazoDe(t) # -1 /\ PrazoDe(t) < agora_dt

\* a record without a readable deadline counts as expired
Vencida_NoPrazo(t, agora_dt) == PrazoDe(t) = -1 \/ PrazoDe(t) <= agora_dt

Vencida(t, agora_dt) == PrazoDe(t) # -1 /\ PrazoDe(t) <= agora_dt

\* a record without a readable deadline is dropped with the expired ones
Restantes_Dated(ts, agora_dt) ==
  SelectSeq(ts, LAMBDA t : PrazoDe(t) # -1 /\ ~Vencida(t, agora_dt))

Restantes(ts, agora_dt) == SelectSeq(ts, LAMBDA t : ~Vencida(t, agora_dt))

Removidas(ts, agora_dt) == SelectSeq(ts, LAMBDA t : Vencida(t, agora_dt))

\* ------------------------------------------------------------------ inputs
NumValue(tok) == IF tok = "3" THEN 3 ELSE 0

\* str.isdigit()
IsDigit(s) == Len(s) = 1 /\ s[1] \in {"3"}

\* int(qtd_raw) if qtd_raw.isdigit() else None (150); <<>> is None
Quantidade(s) == IF IsDigit(s) THEN <<NumValue(s[1])>> ELSE <<>>

\* str.lower()
Lower(s) ==
  [i \in 1..Len(s) |-> IF s[i] = "S" THEN "s"
                       ELSE IF s[i] = "X" THEN "x" ELSE s[i]]

\* answer.strip().lower() in ("s", "sim")
Sim(s) == Lower(Strip(s)) \in {<<"s">>, <<"sim">>}

SimInputs == {<<>>, <<"S", " ">>}

\* int(time.time() - inicio): the stopwatch ran for no or one second
DurInputs == {0, 1}

\* uuid4 texts; entry i is the text of id i
IdTexts == <<"id-1", "id-2", "id-3", "id-4", "id-5", "id-6">>

\* typed at "ID ou titulo": nothing, a title, a title in capitals with a
\* trailing blank, the id of the first task Create adds
QueryInputs == {<<>>, <<"b">>, <<"X", " ">>}

NoEntrada == [titulo |-> <<>>, descricao |-> <<>>, qtd |-> <<>>,
              prazo |-> <<>>, concluida |-> <<>>, dur |-> 0]

CriarInputs ==
  { [NoEntrada EXCEPT !.titulo = <<" ">>, !.prazo = <<DateTexts[1]>>],
    [NoEntrada EXCEPT !.titulo = <<"c">>, !.prazo = <<"x">>],
    [NoEntrada EXCEPT !.titulo = <<"c">>, !.qtd = <<"z">>],
    [NoEntrada EXCEPT !.titulo = <<" ", "c">>, !.qtd = <<"3">>,
                      !.prazo = <<DateTexts[1], " ">>] }

\* answers to the prompts of Edit that change every field but the title
EdEntrada ==
  [NoEntrada EXCEPT !.descricao = <<"d">>, !.qtd = <<"z">>,
                    !.prazo = <<DateTexts[3]>>, !.concluida = <<"sim">>]

EditarInputs == {NoEntrada, EdEntrada}

\* ------------------------------------------------------------------- state
VARIABLES
  file,        \* tarefas.json
  lock,        \* the thread holding the module-level lock, or "free"
  now,         \* the wall clock
  nextId,      \* the next id gerar_id hands out
  pc,          \* where each thread is
  op,          \* the menu operation the foreground thread is running
  tarefas,     \* per thread: the list carregar_tarefas returned
  saving,      \* per thread: the argument of the salvar_tarefas call
  removidas,   \* per thread: remover_vencidas' list of removed records
  agora_dt,    \* per thread: remover_vencidas' reading of the clock
  sel,         \* <<t>>: the record selecionar_tarefa returned (t), or
               \* criar_tarefa_interativa's new record (tarefa); else <<>>
  entrada,     \* the texts typed into the running operation
  msg,         \* the last message the foreground operation printed
  before,      \* history: the document the write in progress replaces
  destroyed,   \* history: ids removed by a finished Delete or sweep
  ops,         \* history: the data-changing operations confirmed so far
  hist,        \* whether before and destroyed are recorded in this behaviour
  toggled      \* history: per stored id, the concluida value its run of
               \* Toggle-Completes started from and the length of the run

vars == <<file, lock, now, nextId, pc, op, tarefas, saving, removidas,
          agora_dt, sel, entrada, msg, before, destroyed, ops, hist,
                 toggled>>

\* no history of Toggle-Complete is recorded
NoToggled == [on |-> FALSE, of |-> <<>>]

\* every stored task starts a run of no Toggle-Complete
ToggledFrom(ts) ==
  [on |-> TRUE,
   of |-> [id \in Ids(ts) |-> [orig |-> ts[Find(ts, id)].concluida, n |-> 0]]]

\* the documents the program may find when it starts
\* a record of an older version: a "tipo" key, a deadline that is no ISO
\* text, one stopwatch session recorded
LegacyTask ==
  [Task(1, <<"b">>, <<>>, <<>>, "garbage", IsoTexts[1])
     EXCEPT !.tipo = "legacy", !.ultimo_tempo_seg = 1, !.total_tempo_seg = 1]

InitDoc ==
  << LegacyTask, Task(2, <<"x">>, <<>>, <<3>>, IsoTexts[2], IsoTexts[1]) >>

\* uuid4 never returns an id that is already in the document
FirstNewId == Len(InitDoc) + 1

InitFiles == {AbsentFile, PartialFile, JsonFile(InitDoc)}

InitWith(h) ==
  /\ hist = h
  /\ file \in InitFiles
  /\ lock = "free"
  /\ now = 0
  /\ nextId = FirstNewId
  /\ pc = [th \in Threads |-> IF th = "fg" THEN "main" ELSE "off"]
  /\ op = "main"
  /\ tarefas = [th \in Threads |-> <<>>]
  /\ saving = [th \in Threads |-> <<>>]
  /\ removidas = [th \in Threads |-> <<>>]
  /\ agora_dt = [th \in Threads |-> 0]
  /\ sel = <<>>
  /\ entrada = NoEntrada
  /\ msg = ""
  /\ before = <<>>
  /\ destroyed = {}
  /\ ops = 0

Init == InitWith(FALSE) /\ toggled = NoToggled

\* ------------------------------------------------------------ small helpers
Goto(th, label) == pc' = [pc EXCEPT ![th] = label]

\* the operation a thread's salvar_tarefas call belongs to
OpOf(th) == IF th = "bg" THEN "checador" ELSE op

InSweep(th) == OpOf(th) \in {"checador", "listar"}

\* the locals of a returning function die
ClearLocals(th) ==
  /\ tarefas' = [tarefas EXCEPT ![th] = <<>>]
  /\ saving' = [saving EXCEPT ![th] = <<>>]
  /\ removidas' = [removidas EXCEPT ![th] = <<>>]
  /\ agora_dt' = [agora_dt EXCEPT ![th] = 0]

\* a foreground operation returns to the menu loop; its locals die
Return(m) ==
  /\ msg' = m
  /\ op' = "menu"
  /\ sel' = <<>>
  /\ entrada' = NoEntrada
  /\ ClearLocals("fg")
  /\ Goto("fg", "menu")

\* remover_vencidas returns, after its [AUTO] notices: the checker thread
\* goes to sleep, listar_tarefas_interativo goes on to its own load
RvReturn(th) ==
  /\ ClearLocals(th)
  /\ Goto(th, IF th = "bg" THEN "sleep" ELSE "listar_load")
  /\ msg' = IF th = "fg" /\ removidas[th] # <<>>
            THEN "[AUTO] Removida por prazo vencido"
            ELSE IF th = "fg" THEN "" ELSE msg
  /\ op' = IF th = "fg" THEN "listar" ELSE op
  /\ UNCHANGED <<sel, entrada>>

\* menu_principal starts the checker thread and enters its loop
StartThreads ==
  /\ pc' = [pc EXCEPT !["fg"] = "menu", !["bg"] = "rv"]
  /\ op' = "menu"
  /\ ClearLocals("fg")
  /\ UNCHANGED <<sel, entrada, msg>>

\* the print after salvar_tarefas returns
Mensagem(o) ==
  IF o = "criar" THEN "Tarefa criada"
  ELSE IF o = "editar" THEN "Tarefa atualizada."
  ELSE IF o = "excluir" THEN "Tarefa excluida."
  ELSE IF o = "marcar" THEN "Estado alterado."
  ELSE "Cronometro salvo"

\* ----------------------------------------------- history of Toggle-Complete
\* the history after thread th's write of saving[th] over the document
\* before: a Toggle-Complete of the task as it was stored lengthens the
\* task's run (a third one starts a new run), a write that leaves the task's
\* record as it was keeps the run, any other write of the task starts a new
\* run of length 0
Toggled(th) ==
  LET old == Migrar(before)
      new == saving[th]
      Rec(ts, id) == ts[Find(ts, id)]
  IN [id \in Ids(new) |->
        IF id \notin DOMAIN toggled.of \/ id \notin Ids(old)
        THEN [orig |-> Rec(new, id).concluida, n |-> 0]
        ELSE IF /\ OpOf(th) = "marcar" /\ sel[1].id = id
                /\ Rec(tarefas[th], id) = Rec(old, id)
        THEN IF toggled.of[id].n = 2
             THEN [orig |-> Rec(old, id).concluida, n |-> 1]
             ELSE [toggled.of[id] EXCEPT !.n = @ + 1]
        ELSE IF Rec(new, id) = Rec(old, id) THEN toggled.of[id]
        ELSE [orig |-> Rec(new, id).concluida, n |-> 0]]

\* ---------------------------------------------------------- salvar_tarefas
\* a thread at "lock" has called salvar_tarefas(saving[th])
\* the lock as a plain flag nobody waits for
Acquirable_Always(th) == TRUE

\* "with lock:" can be entered
Acquirable(th) == lock = "free"

\* "with lock:" and open(DB_FILE, "w"), which truncates the file
Open(th) ==
  /\ pc[th] = "lock"
  /\ Acquirable(th)
  /\ lock' = th
  /\ file' = PartialFile
  /\ before' = IF hist THEN file.data ELSE before
  /\ Goto(th, "dump")
  /\ UNCHANGED <<now, nextId, op, tarefas, saving, removidas, agora_dt,
                 sel, entrada, msg, destroyed, ops, hist,
                 toggled>>

\* the thread keeps the lock when it leaves the block
Release_Kept(th) == th

\* the lock after thread th leaves "with lock:" (line 105)
Release(th) == "free"

\* json.dump, the close of the file and the end of "with lock:"; then the
\* caller's last lines, which touch nothing shared
Dump(th) ==
  /\ pc[th] = "dump"
  /\ file' = JsonFile(saving[th])
  /\ before' = <<>>
  /\ lock' = Release(th)
  /\ destroyed' =
       IF hist /\ InSweep(th)
       THEN destroyed \cup (Ids(removidas[th]) \cap Ids(before))
       ELSE IF hist /\ OpOf(th) = "excluir"
       THEN destroyed \cup ({sel[1].id} \cap Ids(before))
       ELSE destroyed
  /\ IF OpOf(th) = "main" THEN StartThreads
     ELSE IF InSweep(th) THEN RvReturn(th)
     ELSE Return(Mensagem(op))
  /\ toggled' = IF toggled.on THEN [toggled EXCEPT !.of = Toggled(th)]
                ELSE toggled
  /\ UNCHANGED <<now, nextId, ops, hist>>

\* -------------------------------------------------------- remover_vencidas
\* lines 115-135 up to the call of salvar_tarefas: the load, the reading of
\* the clock and the partition.  The checker thread runs it when it wakes,
\* the foreground thread when the user chooses [L].
RvLoad(th) ==
  /\ pc[th] = (IF th = "bg" THEN "rv" ELSE "menu")
  /\ IF Removidas(CarregarTarefas(file), now) # <<>>
     THEN /\ tarefas' = [tarefas EXCEPT ![th] = CarregarTarefas(file)]
          /\ agora_dt' = [agora_dt EXCEPT ![th] = now]
          /\ removidas' = [removidas EXCEPT
                             ![th] = Removidas(CarregarTarefas(file), now)]
          /\ saving' = [saving EXCEPT
                          ![th] = Restantes(CarregarTarefas(file), now)]
          /\ Goto(th, "lock")
          /\ op' = IF th = "fg" THEN "listar" ELSE op
          /\ msg' = IF th = "fg" THEN "" ELSE msg
          /\ UNCHANGED <<sel, entrada>>
     ELSE RvReturn(th)
  /\ UNCHANGED <<file, lock, now, nextId, before, destroyed, ops, hist,
                 toggled>>

\* time.sleep(60) is over
Wake ==
  /\ pc["bg"] = "sleep"
  /\ Goto("bg", "rv")
  /\ UNCHANGED <<file, lock, now, nextId, op, tarefas, saving, removidas,
                 agora_dt, sel, entrada, msg, before, destroyed, ops, hist,
                 toggled>>

\* --------------------------------------------------- __main__ and the menu
Main ==
  /\ pc["fg"] = "main"
  /\ IF file.st = "absent"
     THEN /\ Goto("fg", "lock")
          /\ UNCHANGED <<op, tarefas, saving, removidas, agora_dt, sel,
                         entrada, msg>>
     ELSE StartThreads
  /\ UNCHANGED <<file, lock, now, nextId, before, destroyed, ops, hist,
                 toggled>>

Tick ==
  /\ now < MaxTime
  /\ now' = now + 1
  /\ UNCHANGED <<file, lock, nextId, pc, op, tarefas, saving, removidas,
                 agora_dt, sel, entrada, msg, before, destroyed, ops, hist,
                 toggled>>

\* an operation the user confirms, among those that put new field values
\* into the document, uses up one unit of the budget
Confirmar ==
  /\ ops < MaxOps
  /\ ops' = ops + 1

\* ------------------------------------------------- criar_tarefa_interativa
\* lines 142-156: the two validations
TituloValido(in) == Strip(in.titulo) # <<>>

\* the deadline text is not checked
PrazoValido_Any(in) == TRUE

PrazoValido(in) ==
  ~(Strip(in.prazo) # <<>> /\ ParsePrazo(Strip(in.prazo)) = -1)

CriarValida(in) == TituloValido(in) /\ PrazoValido(in)

\* gerar_id hands out the id of the first task again
NovaTarefa_Reused(in, id, agora) ==
  Task(1, Strip(in.titulo), Strip(in.descricao), Quantidade(Strip(in.qtd)),
       IF ParsePrazo(Strip(in.prazo)) # -1
       THEN IsoFormat(ParsePrazo(Strip(in.prazo))) ELSE Null,
       IsoFormat(agora))

\* lines 158-168
NovaTarefa(in, id, agora) ==
  Task(id, Strip(in.titulo), Strip(in.descricao), Quantidade(Strip(in.qtd)),
       IF ParsePrazo(Strip(in.prazo)) # -1
       THEN IsoFormat(ParsePrazo(Strip(in.prazo))) ELSE Null,
       IsoFormat(agora))

\* [A] is chosen and the prompts are answered
CriarInput ==
  /\ pc["fg"] = "menu"
  /\ \E in \in CriarInputs :
       /\ entrada' = in
       /\ IF CriarValida(in) THEN Confirmar ELSE UNCHANGED ops
  /\ op' = "criar"
  /\ msg' = ""
  /\ Goto("fg", "criar_val")
  /\ UNCHANGED <<file, lock, now, nextId, tarefas, saving, removidas,
                 agora_dt, sel, before, destroyed, hist,
                 toggled>>

Criar ==
  /\ pc["fg"] = "criar_val"
  /\ IF ~TituloValido(entrada)
     THEN Return("Titulo e obrigatorio.") /\ UNCHANGED nextId
     ELSE IF ~PrazoValido(entrada)
     THEN Return("Formato de data invalido.") /\ UNCHANGED nextId
     ELSE /\ sel' = <<NovaTarefa(entrada, nextId, now)>>
          /\ nextId' = nextId + 1
          /\ Goto("fg", "criar_load")
          /\ UNCHANGED <<op, msg, entrada, tarefas, saving, removidas,
                         agora_dt>>
  /\ UNCHANGED <<file, lock, now, before, destroyed, ops, hist,
                 toggled>>

CriarLoad ==
  /\ pc["fg"] = "criar_load"
  /\ tarefas' = [tarefas EXCEPT !["fg"] = CarregarTarefas(file)]
  /\ saving' = [saving EXCEPT !["fg"] = Append(CarregarTarefas(file), sel[1])]
  /\ Goto("fg", "lock")
  /\ UNCHANGED <<file, lock, now, nextId, op, removidas, agora_dt, sel,
                 entrada, msg, before, destroyed, ops, hist,
                 toggled>>

\* ------------------------------------------------- listar_tarefas_interativo
ListarLoad ==
  /\ pc["fg"] = "listar_load"
  /\ Return(IF CarregarTarefas(file) = <<>>
            THEN "Nenhuma tarefa registrada." ELSE "Pendentes / Concluidas")
  /\ UNCHANGED <<file, lock, now, nextId, before, destroyed, ops, hist,
                 toggled>>

\* ------------------------------------------------------- selecionar_tarefa
\* sub in seq
Contains(seq, sub) ==
  \E i \in 1..(Len(seq) - Len(sub) + 1) : SubSeq(seq, i, i + Len(sub) - 1) = sub

\* line 213
Match(t, q) == Contains(<<IdTexts[t.id]>>, q) \/ Contains(Lower(t.titulo), q)

Encontrados(ts, q) == SelectSeq(ts, LAMBDA t : Match(t, q))

\* what selecionar_tarefa can return for the typed query: <<>> is None, and
\* with several matches the typed index picks one of them or none
Selecionar(f, query) ==
  LET q == Lower(Strip(query))
      e == Encontrados(CarregarTarefas(f), q)
  IN IF q = <<>> \/ e = <<>> THEN {<<>>}
     ELSE IF Len(e) = 1 THEN {<<e[1]>>}
     ELSE {<<e[i]>> : i \in 1..Len(e)} \cup {<<>>}

\* what it prints when it returns None
SelMsg(f, query) ==
  IF Lower(Strip(query)) # <<>>
     /\ Encontrados(CarregarTarefas(f), Lower(Strip(query))) = <<>>
  THEN "Nenhuma tarefa encontrada." ELSE ""

\* the operation goes on, with its selection, to the label of its reload
Seguir(o, r, in, label) ==
  /\ op' = o
  /\ sel' = r
  /\ entrada' = in
  /\ msg' = ""
  /\ Goto("fg", label)
  /\ UNCHANGED <<tarefas, saving, removidas, agora_dt>>

\* ------------------------------------------------- editar_tarefa_interativa
\* the edited record is given a new creation stamp
Editar_Renew(t, in) ==
  [t EXCEPT !.criado_em = IsoTexts[Len(IsoTexts)],
            !.concluida = Sim(in.concluida)]

\* lines 236-261
Editar(t, in) ==
  LET t1 == IF Strip(in.titulo) # <<>>
            THEN [t EXCEPT !.titulo = Strip(in.titulo)] ELSE t
      t2 == IF Strip(in.descricao) # <<>>
            THEN [t1 EXCEPT !.descricao = Strip(in.descricao)] ELSE t1
      t3 == IF Strip(in.qtd) = <<>> THEN t2
            ELSE [t2 EXCEPT !.quantidade = Quantidade(Strip(in.qtd))]
      t4 == IF Strip(in.prazo) # <<>> /\ ParsePrazo(Strip(in.prazo)) # -1
            THEN [t3 EXCEPT !.prazo = IsoFormat(ParsePrazo(Strip(in.prazo)))]
            ELSE t3
  IN [t4 EXCEPT !.concluida = Sim(in.concluida)]

\* [E] is chosen, a task selected and the prompts answered
EditarSel ==
  /\ pc["fg"] = "menu"
  /\ \E query \in QueryInputs : \E r \in Selecionar(file, query) :
       IF r = <<>>
       THEN Return(SelMsg(file, query)) /\ UNCHANGED ops
       ELSE \E in \in EditarInputs :
              /\ Confirmar
              /\ Seguir("editar", <<Editar(r[1], in)>>, in, "editar_load")
  /\ UNCHANGED <<file, lock, now, nextId, before, destroyed, hist,
                 toggled>>

\* the edited record is added to the list instead of put in its place
Substituir_Append(ts, t) == Append(ts, t)

\* lines 263-267
Substituir(ts, t) ==
  IF Find(ts, t.id) = 0 THEN ts ELSE [ts EXCEPT ![Find(ts, t.id)] = t]

EditarLoad ==
  /\ pc["fg"] = "editar_load"
  /\ tarefas' = [tarefas EXCEPT !["fg"] = CarregarTarefas(file)]
  /\ saving' = [saving EXCEPT
                  !["fg"] = Substituir(CarregarTarefas(file), sel[1])]
  /\ Goto("fg", "lock")
  /\ UNCHANGED <<file, lock, now, nextId, op, removidas, agora_dt, sel,
                 entrada, msg, before, destroyed, ops, hist,
                 toggled>>

\* ------------------------------------------------ excluir_tarefa_interativa
\* [D] is chosen, a task selected and the confirmation answered
ExcluirSel ==
  /\ pc["fg"] = "menu"
  /\ \E query \in QueryInputs : \E r \in Selecionar(file, query) :
       IF r = <<>>
       THEN Return(SelMsg(file, query)) /\ UNCHANGED ops
       ELSE \E c \in SimInputs :
              IF Sim(c)
              THEN /\ Confirmar
                   /\ Seguir("excluir", r, [NoEntrada EXCEPT !.concluida = c],
                             "excluir_load")
              ELSE Return("") /\ UNCHANGED ops
  /\ UNCHANGED <<file, lock, now, nextId, before, destroyed, hist,
                 toggled>>

\* line 279
SemId(ts, id) == SelectSeq(ts, LAMBDA x : x.id # id)

ExcluirLoad ==
  /\ pc["fg"] = "excluir_load"
  /\ tarefas' = [tarefas EXCEPT !["fg"] = CarregarTarefas(file)]
  /\ saving' = [saving EXCEPT
                  !["fg"] = SemId(CarregarTarefas(file), sel[1].id)]
  /\ Goto("fg", "lock")
  /\ UNCHANGED <<file, lock, now, nextId, op, removidas, agora_dt, sel,
                 entrada, msg, before, destroyed, ops, hist,
                 toggled>>

\* ------------------------------------------------------------ marcar_tarefa
\* [M] is chosen and a task selected
MarcarSel ==
  /\ pc["fg"] = "menu"
  /\ \E query \in QueryInputs : \E r \in Selecionar(file, query) :
       IF r = <<>>
       THEN Return(SelMsg(file, query))
       ELSE Seguir("marcar", r, NoEntrada, "marcar_load")
  /\ UNCHANGED <<file, lock, now, nextId, before, destroyed, ops, hist,
                 toggled>>

\* the task is marked as done instead of flipped
Alternar_Set(ts, i) == [ts EXCEPT ![i].concluida = TRUE]

\* line 292
Alternar(ts, i) == [ts EXCEPT ![i].concluida = ~ts[i].concluida]

MarcarLoad ==
  /\ pc["fg"] = "marcar_load"
  /\ LET ts == CarregarTarefas(file)
         i == Find(ts, sel[1].id) IN
       IF i # 0
       THEN /\ tarefas' = [tarefas EXCEPT !["fg"] = ts]
            /\ saving' = [saving EXCEPT !["fg"] = Alternar(ts, i)]
            /\ Goto("fg", "lock")
            /\ UNCHANGED <<op, msg, sel, entrada, removidas, agora_dt>>
       ELSE Return("")
  /\ UNCHANGED <<file, lock, now, nextId, before, destroyed, ops, hist,
                 toggled>>

\* ------------------------------------------------------- iniciar_cronometro
\* [C] is chosen, a task selected, the stopwatch started and stopped
CronSel ==
  /\ pc["fg"] = "menu"
  /\ \E query \in QueryInputs : \E r \in Selecionar(file, query) :
       IF r = <<>>
       THEN Return(SelMsg(file, query)) /\ UNCHANGED ops
       ELSE \/ Return("") /\ UNCHANGED ops              \* "q" cancels
            \/ \E d \in DurInputs :
                 /\ Confirmar
                 /\ Seguir("cron", r, [NoEntrada EXCEPT !.dur = d],
                           "cron_load")
  /\ UNCHANGED <<file, lock, now, nextId, before, destroyed, hist,
                 toggled>>

\* the total is overwritten instead of added to
Acumular_Reset(ts, i, dur) ==
  [ts EXCEPT ![i].ultimo_tempo_seg = dur, ![i].total_tempo_seg = dur]

\* lines 314-316
Acumular(ts, i, dur) ==
  [ts EXCEPT ![i].ultimo_tempo_seg = dur,
             ![i].total_tempo_seg = ts[i].total_tempo_seg + dur]

CronLoad ==
  /\ pc["fg"] = "cron_load"
  /\ LET ts == CarregarTarefas(file)
         i == Find(ts, sel[1].id) IN
       IF i # 0
       THEN /\ tarefas' = [tarefas EXCEPT !["fg"] = ts]
            /\ saving' = [saving EXCEPT !["fg"] = Acumular(ts, i, entrada.dur)]
            /\ Goto("fg", "lock")
            /\ UNCHANGED <<op, msg, sel, entrada, removidas, agora_dt>>
       ELSE Return("")
  /\ UNCHANGED <<file, lock, now, nextId, before, destroyed, ops, hist,
                 toggled>>

\* --------------------------------------- salvar_tarefas, then carregar_tarefas
\* records as a document written by any version may hold them
RtRecords ==
  { LegacyTask,
    Task(2, <<"x">>, <<>>, <<3>>, IsoTexts[2], IsoTexts[1]),
    [Task(3, <<"c">>, <<"d">>, <<>>, Null, IsoTexts[1])
       EXCEPT !.extra = "kept", !.concluida = TRUE],
    [Task(4, <<"c", " ", "c">>, <<>>, <<3>>, "", IsoTexts[2])
       EXCEPT !.tipo = "legacy", !.extra = "kept", !.total_tempo_seg = 1],
    [Task(5, <<"b">>, <<>>, <<>>, IsoTexts[1], IsoTexts[1])
       EXCEPT !.ultimo_tempo_seg = 1, !.total_tempo_seg = 1] }

RtCollections ==
  {<<>>} \cup {<<r>> : r \in RtRecords}
         \cup {<<r1, r2>> : r1 \in RtRecords, r2 \in RtRecords}

\* a caller about to run salvar_tarefas(c) and then carregar_tarefas(), alone
RtInit ==
  /\ hist = FALSE
  /\ file \in InitFiles
  /\ lock = "free"
  /\ now = 0
  /\ nextId = FirstNewId
  /\ pc = [th \in Threads |-> IF th = "fg" THEN "lock" ELSE "off"]
  /\ op = "rt"
  /\ tarefas = [th \in Threads |-> <<>>]
  /\ \E c \in RtCollections :
       saving = [th \in Threads |-> IF th = "fg" THEN c ELSE <<>>]
  /\ removidas = [th \in Threads |-> <<>>]
  /\ agora_dt = [th \in Threads |-> 0]
  /\ sel = <<>>
  /\ entrada = NoEntrada
  /\ msg = ""
  /\ before = <<>>
  /\ destroyed = {}
  /\ ops = 0
  /\ toggled = NoToggled

\* line 107 and the end of "with lock:", the caller going on to its load
RtDump ==
  /\ pc["fg"] = "dump" /\ op = "rt"
  /\ file' = JsonFile(saving["fg"])
  /\ lock' = "free"
  /\ Goto("fg", "rt_load")
  /\ UNCHANGED <<now, nextId, op, tarefas, saving, removidas, agora_dt, sel,
                 entrada, msg, before, destroyed, ops, hist,
                 toggled>>

\* carregar_tarefas()
RtCarregar ==
  /\ pc["fg"] = "rt_load"
  /\ tarefas' = [tarefas EXCEPT !["fg"] = CarregarTarefas(file)]
  /\ Goto("fg", "rt_done")
  /\ UNCHANGED <<file, lock, now, nextId, op, saving, removidas, agora_dt,
                 sel, entrada, msg, before, destroyed, ops, hist,
                 toggled>>

RtNext == Open("fg") \/ RtDump \/ RtCarregar

RtSpec == RtInit /\ [][RtNext]_vars

\* ------------------------------------- Toggle-Complete next to the sweeps
\* the program used for Toggle-Complete and listing only, with the history of
\* the toggles recorded
TgInit == InitWith(TRUE) /\ toggled = ToggledFrom(CarregarTarefas(file))

TgNext ==
  \/ Main
  \/ MarcarSel
  \/ MarcarLoad
  \/ ListarLoad
  \/ \E th \in Threads : Open(th)
  \/ \E th \in Threads : Dump(th)
  \/ \E th \in Threads : RvLoad(th)
  \/ Wake
  \/ Tick

TgSpec == TgInit /\ [][TgNext]_vars

\* ------------------------------------------- the program on a lost document
\* the menu loop and the checker thread are running and the document is
\* missing, unreadable, empty or the sample one, at the instant the deadline
\* of the sample's second task passes
LdFiles == {AbsentFile, PartialFile, JsonFile(<<>>), JsonFile(InitDoc)}

LdInit ==
  /\ hist = FALSE
  /\ toggled = NoToggled
  /\ file \in LdFiles
  /\ lock = "free"
  /\ now = 1
  /\ nextId = FirstNewId
  /\ pc = [th \in Threads |-> IF th = "fg" THEN "menu" ELSE "rv"]
  /\ op = "menu"
  /\ tarefas = [th \in Threads |-> <<>>]
  /\ saving = [th \in Threads |-> <<>>]
  /\ removidas = [th \in Threads |-> <<>>]
  /\ agora_dt = [th \in Threads |-> 0]
  /\ sel = <<>>
  /\ entrada = NoEntrada
  /\ msg = ""
  /\ before = <<>>
  /\ destroyed = {}
  /\ ops = 0

LdNext ==
  \/ CriarInput
  \/ Criar
  \/ CriarLoad
  \/ ListarLoad
  \/ EditarSel
  \/ EditarLoad
  \/ ExcluirSel
  \/ ExcluirLoad
  \/ MarcarSel
  \/ MarcarLoad
  \/ CronSel
  \/ CronLoad
  \/ \E th \in Threads : Open(th)
  \/ \E th \in Threads : Dump(th)
  \/ \E th \in Threads : RvLoad(th)
  \/ Wake

LdSpec == LdInit /\ [][LdNext]_vars

\* ------------------------------------------- the menu loop with no checker
\* Create and listing run by the foreground thread while the checker thread
\* is not scheduled: no write is concurrent with another operation; the
\* history of the writes is recorded
SoloNext ==
  \/ Main
  \/ CriarInput
  \/ Criar
  \/ CriarLoad
  \/ RvLoad("fg")
  \/ ListarLoad
  \/ Open("fg")
  \/ Dump("fg")
  \/ Tick

SoloSpec == InitWith(TRUE) /\ toggled = NoToggled /\ [][SoloNext]_vars

\* ------------------------------------------------- Edit after an earlier Edit
\* the sample document after an Edit of its first task with the answers
\* EdEntrada
EdDoc == << Editar(Migrar(InitDoc)[1], EdEntrada), Migrar(InitDoc)[2] >>

\* the program at the instant the deadline of the sample's second task
\* passes, after that Edit: the checker thread is about to sweep, or it
\* loaded the document before the Edit saved and is about to save
EdInit ==
  /\ hist = FALSE
  /\ toggled = NoToggled
  /\ file = JsonFile(EdDoc)
  /\ lock = "free"
  /\ now = 1
  /\ nextId = FirstNewId
  /\ op = "menu"
  /\ \E stale \in BOOLEAN :
       /\ pc = [th \in Threads |->
                 IF th = "fg" THEN "menu" ELSE IF stale THEN "lock" ELSE "rv"]
       /\ tarefas = [th \in Threads |->
                      IF th = "bg" /\ stale THEN Migrar(InitDoc) ELSE <<>>]
       /\ saving = [th \in Threads |->
                     IF th = "bg" /\ stale
                     THEN Restantes(Migrar(InitDoc), 1) ELSE <<>>]
       /\ removidas = [th \in Threads |->
                        IF th = "bg" /\ stale
                        THEN Removidas(Migrar(InitDoc), 1) ELSE <<>>]
       /\ agora_dt = [th \in Threads |-> IF th = "bg" /\ stale THEN 1 ELSE 0]
  /\ sel = <<>>
  /\ entrada = NoEntrada
  /\ msg = ""
  /\ before = <<>>
  /\ destroyed = {}
  /\ ops = 0

EdNext ==
  \/ EditarSel
  \/ EditarLoad
  \/ MarcarSel
  \/ MarcarLoad
  \/ \E th \in Threads : Open(th)
  \/ \E th \in Threads : Dump(th)
  \/ RvLoad("bg")
  \/ Wake

EdSpec == EdInit /\ [][EdNext]_vars

\* ------------------------------------------------------------ specification
Next ==
  \/ Main
  \/ CriarInput
  \/ Criar
  \/ CriarLoad
  \/ ListarLoad
  \/ EditarSel
  \/ EditarLoad
  \/ ExcluirSel
  \/ ExcluirLoad
  \/ MarcarSel
  \/ MarcarLoad
  \/ CronSel
  \/ CronLoad
  \/ \E th \in Threads : Open(th)
  \/ \E th \in Threads : Dump(th)
  \/ \E th \in Threads : RvLoad(th)
  \/ Wake
  \/ Tick

Spec == Init /\ [][Next]_vars

\* the same behaviours, with their history recorded
HistSpec == InitWith(TRUE) /\ toggled = NoToggled /\ [][Next]_vars

\* the scheduler runs every thread that can take a step, and a thread waiting
\* for the lock gets it if it is free again and again; nothing obliges the
\* user to answer a prompt, and the clock need not advance
Fairness ==
  /\ \A th \in Threads :
       /\ SF_vars(Open(th))
       /\ WF_vars(Dump(th))
  /\ WF_vars(RvLoad("bg"))
  /\ WF_vars(Wake)
  /\ WF_vars(Main)
  /\ WF_vars(Criar)
  /\ WF_vars(CriarLoad)
  /\ WF_vars(ListarLoad)
  /\ WF_vars(EditarLoad)
  /\ WF_vars(ExcluirLoad)
  /\ WF_vars(MarcarLoad)
  /\ WF_vars(CronLoad)

LiveSpec == Init /\ [][Next]_vars /\ Fairness

\* the program used for Toggle-Complete, Delete and listing only, under the
\* same scheduling
LkNext ==
  \/ Main
  \/ MarcarSel
  \/ MarcarLoad
  \/ ExcluirSel
  \/ ExcluirLoad
  \/ ListarLoad
  \/ \E th \in Threads : Open(th)
  \/ \E th \in Threads : Dump(th)
  \/ \E th \in Threads : RvLoad(th)
  \/ Wake
  \/ Tick

LkSpec == Init /\ [][LkNext]_vars /\ Fairness

\* =================================================================== claims

\* C1: at most one thread is inside the write section of salvar_tarefas; a
\* caller starts writing only when no write is in progress.
C1_OneWriter ==
  /\ Cardinality({th \in Threads : pc[th] \in WriteSection}) <= 1
  /\ \A th \in Threads : pc[th] \in WriteSection => lock = th

\* a thread waits at the lock while the other one is between truncating the
\* file and writing it
C1_Witness == \E th \in Threads : pc[th] = "dump" /\ pc[Other(th)] = "lock"

\* the labels at which a thread's next step is a carregar_tarefas whose result
\* it may go on to save from
C2_LoadLabels ==
  {"rv", "menu", "criar_load", "editar_load", "excluir_load", "marcar_load",
   "cron_load"}

\* C2: a load that runs while the other thread is inside salvar_tarefas
\* returns the full collection stored before that save or the full collection
\* being saved, never an empty or partial one.
C2_AllOrNothing ==
  [][\A th \in Threads :
       (/\ pc[th] \in C2_LoadLabels
        /\ pc'[th] = "lock"
        /\ pc[Other(th)] \in WriteSection)
       => tarefas'[th] \in {Migrar(before), Migrar(saving[Other(th)])}]_vars

\* C3: the stored total_tempo_seg of a task never decreases while the task
\* stays in the store: no write replaces a document by one in which a task
\* of the replaced document has a smaller total.
C3_TotalNeverDecreases ==
  [][\A th \in Threads :
       (pc[th] = "dump" /\ pc'[th] # "dump")
       => \A i \in 1..Len(before) : \A j \in 1..Len(file'.data) :
            before[i].id = file'.data[j].id
            => file'.data[j].total_tempo_seg >= before[i].total_tempo_seg]_vars

\* C4: a task removed from the stored collection by Delete or by the sweep is
\* in no later stored collection.
C4_NoResurrection ==
  file.st = "json" => Ids(file.data) \cap destroyed = {}

\* a record whose prazo is a stored instant no later than n
C5_Expired(t, n) ==
  \E k \in 1..Len(IsoTexts) : t.prazo = IsoTexts[k] /\ k - 1 <= n

C5_Partition(stored, loaded, n) ==
  /\ \A i \in 1..Len(loaded) :
       C5_Expired(loaded[i], n) => loaded[i].id \notin Ids(stored)
  /\ \A i \in 1..Len(loaded) :
       ~C5_Expired(loaded[i], n) => \E j \in 1..Len(stored) : stored[j] = loaded[i]
  /\ \A j \in 1..Len(stored) :
       \E i \in 1..Len(loaded) :
         stored[j] = loaded[i] /\ ~C5_Expired(loaded[i], n)
  /\ Len(stored) =
       Cardinality({i \in 1..Len(loaded) : ~C5_Expired(loaded[i], n)})
  /\ \A j1, j2 \in 1..Len(stored) :
       j1 < j2 => \E i1, i2 \in 1..Len(loaded) :
                    i1 < i2 /\ loaded[i1] = stored[j1] /\ loaded[i2] = stored[j2]

\* C5: after remover_vencidas, the stored collection is exactly the loaded
\* records whose prazo is unset, unparseable or strictly later than the time
\* read, unmodified and in their order; the records whose prazo is set and
\* <= that time are absent.  Stated of the sweep's own write, and of the
\* sweep that finds nothing to remove and writes nothing.
C5_SweepPartition ==
  [][\A th \in Threads :
       /\ (pc[th] = "dump" /\ InSweep(th) /\ pc'[th] # "dump")
          => C5_Partition(CarregarTarefas(file'), tarefas[th], agora_dt[th])
       /\ (/\ pc[th] = (IF th = "bg" THEN "rv" ELSE "menu")
           /\ pc'[th] = (IF th = "bg" THEN "sleep" ELSE "listar_load"))
          => /\ file' = file
             /\ C5_Partition(CarregarTarefas(file'), CarregarTarefas(file),
                             now)]_vars

\* the sweep run by [L] has written and printed its notice: no stored record
\* is expired, and two records were kept, one of them with an unparseable
\* prazo
C5_Witness ==
  /\ pc["fg"] = "listar_load"
  /\ msg = "[AUTO] Removida por prazo vencido"
  /\ file.st = "json"
  /\ Len(file.data) >= 2
  /\ \E j \in 1..Len(file.data) : file.data[j].prazo = "garbage"
  /\ \A j \in 1..Len(file.data) : ~C5_Expired(file.data[j], now)

\* two records agree on every field but the two durations
C7_SameButTimes(new, old) ==
  /\ new.id = old.id
  /\ new.titulo = old.titulo
  /\ new.descricao = old.descricao
  /\ new.quantidade = old.quantidade
  /\ new.prazo = old.prazo
  /\ new.concluida = old.concluida
  /\ new.criado_em = old.criado_em
  /\ new.tipo = old.tipo
  /\ new.extra = old.extra

\* C7: recording a session of duration D for a task with total T leaves it
\* with ultimo_tempo_seg = D and total_tempo_seg = T + D (T itself the sum of
\* the sessions recorded before); no other field and no other task changes.
C7_TimerAccumulates ==
  [][(pc["fg"] = "dump" /\ op = "cron" /\ pc'["fg"] # "dump")
     => LET stored == CarregarTarefas(file')
            loaded == tarefas["fg"]
        IN /\ Len(stored) = Len(loaded)
           /\ \E k \in 1..Len(loaded) : loaded[k].id = sel[1].id
           /\ \A k \in 1..Len(loaded) :
                IF loaded[k].id = sel[1].id
                THEN /\ stored[k].ultimo_tempo_seg = entrada.dur
                     /\ stored[k].total_tempo_seg =
                          loaded[k].total_tempo_seg + entrada.dur
                     /\ C7_SameButTimes(stored[k], loaded[k])
                ELSE stored[k] = loaded[k]]_vars

\* a session of a positive duration has been written for a task that had a
\* positive total already, next to another task
C7_Witness ==
  /\ pc["fg"] = "menu"
  /\ msg = "Cronometro salvo"
  /\ file.st = "json"
  /\ Len(file.data) >= 2
  /\ \E k \in 1..Len(file.data) :
       /\ file.data[k].ultimo_tempo_seg >= 1
       /\ file.data[k].total_tempo_seg > file.data[k].ultimo_tempo_seg

\* C8: Edit, Delete, Toggle-Complete and the timer call salvar_tarefas only
\* when the selected id is in the collection they freshly reloaded (here a
\* reload of the complete document that is still the stored one).
C8_NoWriteWhenNotFound ==
  (/\ pc["fg"] = "lock"
   /\ op \in {"editar", "excluir", "marcar", "cron"}
   /\ file.st = "json"
   /\ tarefas["fg"] = Migrar(file.data))
  => sel[1].id \in Ids(tarefas["fg"])

\* C9: deleting an id that is not in the collection (reloaded from the
\* complete document that the delete's own write replaces) leaves the stored
\* collection unchanged and yields an outcome other than the one of a delete
\* that removed a task.
C9_DeleteAbsentIsNotFound ==
  [][(/\ pc["fg"] = "dump" /\ op = "excluir"
      /\ pc'["fg"] # "dump"
      /\ tarefas["fg"] = Migrar(before)
      /\ sel[1].id \notin Ids(tarefas["fg"]))
     => (/\ CarregarTarefas(file') = tarefas["fg"]
         /\ msg' # "Tarefa excluida.")]_vars

\* the inputs the validation must reject, stated on the text itself
C10_Blank(s) == \A i \in 1..Len(s) : s[i] = " "

C10_WellFormed(s) ==
  \E i \in 1..Len(s) :
    /\ \E k \in 1..Len(DateTexts) : s[i] = DateTexts[k]
    /\ \A j \in 1..Len(s) : j # i => s[j] = " "

C10_Invalid(e) ==
  C10_Blank(e.titulo) \/ (~C10_Blank(e.prazo) /\ ~C10_WellFormed(e.prazo))

\* C10: a Create whose title is empty, or whose deadline text is non-empty
\* and not of the form YYYY-MM-DD HH:MM, does no load-modify-save: the
\* document is untouched and the operation returns with a validation message.
C10_CreateValidation ==
  [][(/\ pc["fg"] = "criar_val"
      /\ pc'["fg"] # "criar_val"
      /\ C10_Invalid(entrada))
     => (/\ file' = file
         /\ lock' = lock
         /\ nextId' = nextId
         /\ pc'["fg"] = "menu"
         /\ msg' \in {"Titulo e obrigatorio.",
                      "Formato de data invalido."})]_vars

\* a Create with a malformed deadline has returned; the document still holds
\* its tasks
C10_Witness ==
  /\ pc["fg"] = "menu"
  /\ msg = "Formato de data invalido."
  /\ file.st = "json" /\ Len(file.data) >= 2

\* a complete stored document holds the task with a deadline <= now
C6_StoredExpired(id) ==
  /\ file.st = "json"
  /\ \E i \in 1..Len(file.data) :
       file.data[i].id = id /\ C5_Expired(file.data[i], now)

\* a complete stored document lacks the task, or holds it with a deadline
\* that an Edit has moved past now
C6_Absent(id) == file.st = "json" /\ ~C6_StoredExpired(id)

\* C6: under fair scheduling every task in the store whose deadline is set
\* and <= the current time is eventually absent from the store (a task whose
\* deadline is edited into the future in the meantime is let off).
C6_ExpiredEventuallyAbsent ==
  \A id \in 1..Len(IdTexts) : C6_StoredExpired(id) ~> C6_Absent(id)

\* C11: no two tasks of the stored collection have the same id, whatever the
\* sequence and interleaving of Create, Edit, Toggle-Complete, Delete, the
\* timer and the sweeps.
C11_UniqueIds ==
  file.st = "json"
  => \A i, j \in 1..Len(file.data) :
       file.data[i].id = file.data[j].id => i = j

\* a Create has stored its task next to the two tasks that were there, and
\* gerar_id has handed out an id
C11_Witness ==
  /\ file.st = "json"
  /\ Len(file.data) >= 3
  /\ nextId > FirstNewId
  /\ msg = "Tarefa criada"

\* the ids a saver's own change removes from the collection it loaded
C12_OwnRemoved(th) ==
  IF InSweep(th) THEN Ids(removidas[th])
  ELSE IF op = "excluir" THEN {sel[1].id}
  ELSE {}

C12_Has(ts, t) == \E k \in 1..Len(ts) : ts[k] = t

\* the earlier saver a finishes its write while the later saver b has loaded
\* and is about to save
C12_BothLoaded(a, b) ==
  /\ pc[a] = "dump" /\ pc'[a] # "dump"
  /\ pc[b] = "lock"

C13_SameSchema(new, old) ==
  /\ new.id = old.id
  /\ new.titulo = old.titulo
  /\ new.descricao = old.descricao
  /\ new.quantidade = old.quantidade
  /\ new.prazo = old.prazo
  /\ new.concluida = old.concluida
  /\ new.criado_em = old.criado_em
  /\ new.ultimo_tempo_seg = old.ultimo_tempo_seg
  /\ new.total_tempo_seg = old.total_tempo_seg

C14_SameButConcluida(new, old) ==
  /\ C7_SameButTimes([new EXCEPT !.concluida = old.concluida], old)
  /\ new.ultimo_tempo_seg = old.ultimo_tempo_seg
  /\ new.total_tempo_seg = old.total_tempo_seg

\* a Toggle-Complete's write flips concluida of the selected task of the
\* collection it loaded and changes nothing else
C14_OnlyConcluida ==
  (pc["fg"] = "dump" /\ op = "marcar" /\ pc'["fg"] # "dump")
  => LET stored == CarregarTarefas(file')
         loaded == tarefas["fg"]
     IN /\ Len(stored) = Len(loaded)
        /\ \E k \in 1..Len(loaded) : loaded[k].id = sel[1].id
        /\ \A k \in 1..Len(loaded) :
             IF loaded[k].id = sel[1].id
             THEN /\ stored[k].concluida = ~loaded[k].concluida
                  /\ C14_SameButConcluida(stored[k], loaded[k])
             ELSE stored[k] = loaded[k]

\* a stored task whose record only Toggle-Completes have changed since its
\* run started has the value the run started from after no or two of them,
\* the other value after one
C14_RunValue ==
  (toggled.on /\ file.st = "json")
  => \A i \in 1..Len(file.data) :
       file.data[i].id \in DOMAIN toggled.of
       => LET r == toggled.of[file.data[i].id]
          IN file.data[i].concluida = (IF r.n = 1 THEN ~r.orig ELSE r.orig)

\* C14: with no other mutation of the task in between, two Toggle-Completes
\* of a stored task return its concluida to the original value, and each
\* toggle changes only the concluida field of that one task.
C14_ToggleTwice == [][C14_OnlyConcluida /\ C14_RunValue']_vars

\* the second Toggle-Complete of a run has been written, next to another task
C14_Witness ==
  /\ toggled.on
  /\ pc["fg"] = "menu" /\ msg = "Estado alterado."
  /\ file.st = "json" /\ Len(file.data) >= 2
  /\ \E i \in 1..Len(file.data) :
       /\ file.data[i].id \in DOMAIN toggled.of
       /\ toggled.of[file.data[i].id].n = 2

\* the document is missing or holds no complete JSON text
C15_NoDocument == file.st \in {"absent", "partial"}

\* thread th takes the step
C15_Moves(th) ==
  \/ pc'[th] # pc[th]
  \/ th = "fg" /\ pc[th] = "menu" /\ <<op, msg, entrada>>' # <<op, msg, entrada>>

\* what each step that loads does when there is no document: it writes
\* nothing, and goes on as with an empty collection
C15_AsEmpty(th) ==
  /\ file' = file
  /\ lock' = lock
  /\ pc[th] = "rv" => pc'[th] = "sleep"
  /\ (th = "fg" /\ pc[th] = "menu")
     => /\ pc'[th] \in {"menu", "criar_val", "listar_load"}
        /\ pc'[th] = "menu" => msg' \in {"", "Nenhuma tarefa encontrada."}
        /\ tarefas'[th] = <<>> /\ saving'[th] = <<>>
  /\ (pc[th] = "listar_load" /\ pc'[th] # "listar_load")
     => pc'[th] = "menu" /\ msg' = "Nenhuma tarefa registrada."
  /\ (pc[th] = "criar_load" /\ pc'[th] # "criar_load")
     => pc'[th] = "lock" /\ tarefas'[th] = <<>> /\ saving'[th] = <<sel[1]>>
  /\ (pc[th] \in {"editar_load", "excluir_load"} /\ pc'[th] # pc[th])
     => pc'[th] = "lock" /\ tarefas'[th] = <<>> /\ saving'[th] = <<>>
  /\ (pc[th] \in {"marcar_load", "cron_load"} /\ pc'[th] # pc[th])
     => pc'[th] = "menu" /\ msg' = "" /\ saving'[th] = <<>>

\* C15: carregar_tarefas returns the empty sequence, raising and writing
\* nothing, when the document does not exist and when it is unparseable, and
\* the operation built on that load goes on as if the collection were empty.
C15_LoadDegradesToEmpty ==
  [][\A th \in Threads :
       (/\ C15_NoDocument
        /\ pc[th] \notin {"lock", "dump", "criar_val", "sleep"}
        /\ C15_Moves(th))
       => C15_AsEmpty(th)]_vars

\* a Create has loaded from a missing document and is about to save the
\* collection that holds its task alone
C15_Witness ==
  /\ file.st = "absent"
  /\ pc["fg"] = "lock" /\ op = "criar"
  /\ tarefas["fg"] = <<>>
  /\ Len(saving["fg"]) = 1

\* thread th starts a sweep with this step: the checker thread wakes into
\* remover_vencidas, the foreground thread runs it for [L]
C16_SweepStep(th) ==
  IF th = "bg" THEN pc[th] = "rv" /\ pc'[th] # "rv"
  ELSE pc[th] = "menu" /\ op' = "listar"

\* C16: a sweep that finds no expired task in the collection it loads does
\* not call salvar_tarefas, does not take the lock and leaves the document
\* as it is.
C16_NoWriteWhenNothingExpired ==
  [][\A th \in Threads :
       (/\ C16_SweepStep(th)
        /\ \A i \in 1..Len(CarregarTarefas(file)) :
             ~C5_Expired(CarregarTarefas(file)[i], now))
       => /\ pc'[th] \notin {"lock", "dump"}
          /\ pc'[th] = (IF th = "bg" THEN "sleep" ELSE "listar_load")
          /\ saving'[th] = <<>>
          /\ file' = file
          /\ lock' = lock]_vars

\* the checker thread has swept a document of two tasks, one with a deadline
\* still to come, and sleeps; nothing was written
C16_Witness ==
  /\ pc["bg"] = "sleep"
  /\ lock = "free"
  /\ file = JsonFile(InitDoc)
  /\ \E i \in 1..Len(file.data) :
       \E k \in 1..Len(IsoTexts) : file.data[i].prazo = IsoTexts[k] /\ k - 1 > now

\* C17: a Create with a non-empty title and an empty or well-formed deadline
\* (a past one too), with no concurrent write, leaves as stored collection
\* the previously stored one with exactly one record appended at the end,
\* whose id is none of the ids already there and whose concluida is false
\* and ultimo_tempo_seg and total_tempo_seg are 0; the earlier records are
\* unchanged and keep their order.
C17_CreateAppends ==
  [][(pc["fg"] = "dump" /\ op = "criar" /\ pc'["fg"] # "dump")
     => LET stored == CarregarTarefas(file')
            prev == CarregarTarefas(JsonFile(before))
            n == Len(prev)
        IN /\ ~C10_Invalid(entrada)
           /\ file'.st = "json"
           /\ Len(stored) = n + 1
           /\ \A i \in 1..n : stored[i] = prev[i]
           /\ stored[n + 1].id \notin Ids(prev)
           /\ stored[n + 1].concluida = FALSE
           /\ stored[n + 1].ultimo_tempo_seg = 0
           /\ stored[n + 1].total_tempo_seg = 0
           /\ msg' = "Tarefa criada"]_vars

\* a Create with a deadline that had passed already has stored its task after
\* the two tasks that were there
C17_Witness ==
  /\ hist
  /\ pc["fg"] = "menu" /\ msg = "Tarefa criada"
  /\ file.st = "json" /\ Len(file.data) = 3
  /\ file.data[1].id = 1 /\ file.data[2].id = 2
  /\ file.data[3].prazo = IsoTexts[1]
  /\ now >= 1
  /\ file.data[3].criado_em = IsoTexts[2]

\* the answer to "Marcar como concluida? (s/N)" is s or sim, in any case and
\* with blanks around it
C18_Yes(s) ==
  \E i, j \in 1..Len(s) :
    /\ i <= j
    /\ \A k \in 1..Len(s) : (k < i \/ k > j) => s[k] = " "
    /\ SubSeq(s, i, j) \in {<<"s">>, <<"S">>, <<"sim">>}

\* C18: an Edit of a task still in the store leaves the stored title,
\* description, quantity and deadline as they are where the input is empty,
\* and sets concluida to whether the answer is s or sim, whatever it was;
\* the record with the selected id is the only one replaced.
C18_EditFields ==
  [][(/\ pc["fg"] = "dump" /\ op = "editar" /\ pc'["fg"] # "dump"
      /\ sel[1].id \in Ids(tarefas["fg"]))
     => LET stored == CarregarTarefas(file')
            loaded == tarefas["fg"]
        IN /\ Len(stored) = Len(loaded)
           /\ \A k \in 1..Len(loaded) :
                IF loaded[k].id # sel[1].id THEN stored[k] = loaded[k]
                ELSE /\ stored[k].id = loaded[k].id
                     /\ stored[k].concluida = C18_Yes(entrada.concluida)
                     /\ C10_Blank(entrada.titulo)
                        => stored[k].titulo = loaded[k].titulo
                     /\ C10_Blank(entrada.descricao)
                        => stored[k].descricao = loaded[k].descricao
                     /\ C10_Blank(entrada.qtd)
                        => stored[k].quantidade = loaded[k].quantidade
                     /\ C10_Blank(entrada.prazo)
                        => stored[k].prazo = loaded[k].prazo]_vars

\* the records of ts and us with the same id have the same criado_em
C19_SameCreation(ts, us) ==
  \A i \in 1..Len(ts) : \A j \in 1..Len(us) :
    ts[i].id = us[j].id => ts[i].criado_em = us[j].criado_em

\* C19: the stored id and criado_em of a task do not change from its
\* creation to its removal, under any sequence and interleaving of Edit,
\* Toggle-Complete, the timer, Delete and the sweeps: every write replaces the
\* stored document by one in which each task that stays has its criado_em,
\* and an operation that changes a record in place leaves every record of the
\* collection it loaded with its id and criado_em.
C19_IdentityImmutable ==
  [][\A th \in Threads :
       /\ (pc[th] = "lock" /\ pc'[th] = "dump")
          => /\ C19_SameCreation(file.data, saving[th])
             /\ saving'[th] = saving[th]
             /\ OpOf(th) \in {"editar", "marcar", "cron"}
                => /\ Len(saving[th]) = Len(tarefas[th])
                   /\ \A k \in 1..Len(tarefas[th]) :
                        /\ saving[th][k].id = tarefas[th][k].id
                        /\ saving[th][k].criado_em = tarefas[th][k].criado_em
       /\ (pc[th] = "dump" /\ pc'[th] # "dump")
          => file' = JsonFile(saving[th])]_vars

\* an Edit that changed the description of a task has been written, after
\* the clock moved on from the instant the task was created at
C19_Witness ==
  /\ pc["fg"] = "menu" /\ msg = "Tarefa atualizada."
  /\ now >= 1
  /\ file.st = "json"
  /\ \E i \in 1..Len(file.data) :
       /\ file.data[i].descricao = <<"d">>
       /\ file.data[i].id = 1
       /\ file.data[i].criado_em = IsoTexts[1]

\* a thread holds the lock only between the truncating open and the end of
\* json.dump: not while it sleeps, loads, or does anything else
C20_HeldOnlyInWrite ==
  /\ lock \in Threads \cup {"free"}
  /\ \A th \in Threads : lock = th => pc[th] \in WriteSection

\* a thread that waits for the lock waits for a thread that can go on
C20_NoDeadlock ==
  \A th \in Threads :
    pc[th] = "lock" => (ENABLED Open(th) \/ ENABLED Dump(Other(th)))

\* C20: the sweeper blocks only itself: no thread holds the lock while it
\* sleeps or loads, every acquisition of the lock is followed by its release,
\* the system does not deadlock, and under fair scheduling a foreground
\* operation that reaches salvar_tarefas completes its write.
C20_SweeperBlocksOnlyItself ==
  /\ [](C20_HeldOnlyInWrite /\ C20_NoDeadlock)
  /\ \A th \in Threads : (lock = th) ~> (lock # th)
  /\ (pc["fg"] = "lock") ~> (pc["fg"] \notin {"lock", "dump"})

\* the foreground thread has reached salvar_tarefas while the sweeper is
\* writing, and waits
C20_Witness ==
  /\ pc["fg"] = "lock"
  /\ lock = "bg" /\ pc["bg"] = "dump"
  /\ op \in {"criar", "editar", "excluir", "marcar", "cron"}

====
